---- MODULE Spec2Model ----
(***************************************************************************)
(* Verification model of the react-app-v3 scaffold.                        *)
(*                                                                         *)
(* The repository owns three things: the bundler configuration             *)
(* (vite.config.ts: server.allowedHosts, envPrefix, resolve.alias), the    *)
(* root view App, and the command surface documented in README.md.  The    *)
(* configuration is declarative; each key is modelled by the routine of    *)
(* the bundler that consumes it (environment loading, the dev server's     *)
(* host check, alias matching), with the values the configuration gives.   *)
(* Strings are TLA+ strings; Len, SubSeq and \o act on their characters.   *)
(***************************************************************************)
EXTENDS Integers, Sequences, FiniteSets, TLC

VARIABLES
    processEnv,     \* the process environment: a function from a set of names to values
    buildStatus,    \* "none" | "ok" | "failed": outcome of the last bundling step
    importMetaEnv,  \* what the bundle holds as import.meta.env
    envAtBuild,     \* the process environment the last bundling step read
    mapState,       \* "unmounted" | "ready" | "error": the map view of the README
    renders,        \* the outputs of the invocations of App so far
    allowedCache,   \* dev server: Host headers already found allowed
    hostHeader,     \* dev server: Host header of the last request
    status,         \* dev server: status of the last response (0 before any)
    requests,       \* dev server: number of requests answered
    prevImport,     \* resolver: the resolution before the last one
    lastImport,     \* resolver: the last resolution [importer, source, id]
    pc,             \* command surface: the step the running script is at
    script,         \* command surface: the script running, or last run
    typeOk,         \* source tree: it type-checks
    modulesOk,      \* source tree: every import resolves
    srcVersion,     \* source tree: number of edits so far
    tscPassed,      \* this invocation: tsc -b exited 0
    vitePassed,     \* this invocation: vite build exited 0
    dist,           \* the artifact in dist/: {source version} or NoArtifact
    deployed,       \* the deployed artifact: {source version} or NoArtifact
    exitCode        \* "ok" | "failed": exit status of the last script, or NoExit

envVars == <<processEnv, buildStatus, importMetaEnv, envAtBuild, mapState, renders>>

hostVars == <<allowedCache, hostHeader, status, requests>>

aliasVars == <<prevImport, lastImport>>

cmdVars == <<pc, script, typeOk, modulesOk, srcVersion, tscPassed, vitePassed, dist, deployed, exitCode>>

vars == <<envVars, hostVars, aliasVars, cmdVars>>

----------------------------------------------------------------------------
(* String helpers (String.prototype.startsWith / endsWith).                *)

startsWith(s, p) == Len(s) >= Len(p) /\ SubSeq(s, 1, Len(p)) = p

endsWith(s, p) == Len(s) >= Len(p) /\ SubSeq(s, Len(s) - Len(p) + 1, Len(s)) = p

----------------------------------------------------------------------------
(* Environment resolution: envPrefix.                                      *)

\* Variant: the bundler's default, without the MAPBOX_ entry
envPrefixDefault == {"VITE_"}

\* vite.config.ts: envPrefix: ["VITE_", "MAPBOX_"]
envPrefix == {"VITE_", "MAPBOX_"}

\* Names a build environment may hold.  Two carry an allowed prefix; the
\* others contain a prefix without starting with it, are shorter than a
\* prefix, or differ from it in case.
EnvNames == {"VITE_API_URL", "MAPBOX_API_TOKEN", "SECRET_KEY", "MY_VITE_KEY", "VITE"}

EnvValues == {"pk.live", "sk.test"}

Undefined == "<undefined>"

Environments == UNION {[S -> EnvValues] : S \in SUBSET EnvNames}

\* String.prototype.includes
includes(s, p) == \E i \in 1..(Len(s) - Len(p) + 1) : SubSeq(s, i, i + Len(p) - 1) = p

\* Variant: the prefix is looked for anywhere in the key
isExposedAnywhere(key) == \E prefix \in envPrefix : includes(key, prefix)

\* prefixes.some((prefix) => key.startsWith(prefix))
isExposed(key) == \E prefix \in envPrefix : startsWith(key, prefix)

\* The bundler's environment loading: the entries of the process
\* environment whose key starts with one of the prefixes, value untouched.
loadEnv(env) == [key \in {k \in DOMAIN env : isExposed(k)} |-> env[key]]

\* Variant: the value is looked up in the process environment at run time
ReadEnvLive(name) ==
    IF name \in DOMAIN processEnv /\ isExposed(name) THEN processEnv[name] ELSE Undefined

\* import.meta.env.<name> as application code reads it
ReadEnv(name) == IF name \in DOMAIN importMetaEnv THEN importMetaEnv[name] ELSE Undefined

----------------------------------------------------------------------------
(* The root view (src/App.tsx): one element tree, no props, no hooks, no   *)
(* read of import.meta.env.                                                *)

Element(tag, className, children) == [tag |-> tag, className |-> className, children |-> children]

\* Variant: the view shows the map token it finds in import.meta.env
AppShowingToken ==
    Element("div", "fixed inset-0 text-white", <<
        Element("p", "text-xs", <<IF "MAPBOX_API_TOKEN" \in DOMAIN importMetaEnv
                                   THEN importMetaEnv["MAPBOX_API_TOKEN"]
                                   ELSE "Present Beyond">>)
    >>)

App ==
    Element("div", "fixed inset-0 bg-gradient-to-br from-slate-900 via-slate-800 to-slate-900 text-white", <<
        Element("div", "flex h-full w-full flex-col items-center justify-center px-6 text-center", <<
            Element("p", "text-xs font-semibold uppercase tracking-[0.3em] text-slate-300",
                <<"Present Beyond">>),
            Element("h1", "mt-4 text-4xl font-semibold leading-tight sm:text-5xl",
                <<"Move beyond slides.", Element("br", "", <<>>)>>)
        >>)
    >>)

----------------------------------------------------------------------------
(* Operations on the build environment and the built application.          *)

MaxRenders == 2

EnvInit ==
    /\ processEnv \in Environments
    /\ buildStatus = "none"
    /\ importMetaEnv = <<>>
    /\ envAtBuild = <<>>
    /\ mapState = "unmounted"
    /\ renders = <<>>

\* export NAME=value in the shell that will run, or has run, the build
SetEnv(name, value) ==
    /\ processEnv' = [k \in DOMAIN processEnv \cup {name} |->
                        IF k = name THEN value ELSE processEnv[k]]
    /\ UNCHANGED <<buildStatus, importMetaEnv, envAtBuild, mapState, renders, hostVars, aliasVars, cmdVars>>

\* unset NAME
UnsetEnv(name) ==
    /\ name \in DOMAIN processEnv
    /\ processEnv' = [k \in DOMAIN processEnv \ {name} |-> processEnv[k]]
    /\ UNCHANGED <<buildStatus, importMetaEnv, envAtBuild, mapState, renders, hostVars, aliasVars, cmdVars>>

\* Variant: the build refuses to run without the map token
ViteBuildRequiringToken ==
    /\ IF "MAPBOX_API_TOKEN" \in DOMAIN processEnv
       THEN /\ buildStatus' = "ok"
            /\ importMetaEnv' = loadEnv(processEnv)
       ELSE /\ buildStatus' = "failed"
            /\ importMetaEnv' = <<>>
    /\ envAtBuild' = processEnv
    /\ mapState' = "unmounted"
    /\ UNCHANGED <<processEnv, renders, hostVars, aliasVars, cmdVars>>

\* The bundling step under defineConfig({...}): the configuration names no
\* required variable and validates none, so the step reads the environment
\* through envPrefix and freezes the result into the bundle.  A new bundle
\* is a new application: nothing is mounted in it yet.
ViteBuild ==
    /\ buildStatus' = "ok"
    /\ importMetaEnv' = loadEnv(processEnv)
    /\ envAtBuild' = processEnv
    /\ mapState' = "unmounted"
    /\ UNCHANGED <<processEnv, renders, hostVars, aliasVars, cmdVars>>

\* One invocation of App() in the built application.  The record keeps the
\* output together with the token the bundle held at that moment.
RenderApp ==
    /\ buildStatus = "ok"
    /\ Len(renders) < MaxRenders
    /\ renders' = Append(renders, [output |-> App, token |-> ReadEnv("MAPBOX_API_TOKEN")])
    /\ UNCHANGED <<processEnv, buildStatus, importMetaEnv, envAtBuild, mapState, hostVars, aliasVars, cmdVars>>

\* README, Maps: <Map mapboxAccessToken={import.meta.env.MAPBOX_API_TOKEN} ...>.
\* Mounting the map hands the token to the map library, which cannot
\* authenticate without one.
MapInit ==
    /\ buildStatus = "ok"
    /\ mapState = "unmounted"
    /\ mapState' = IF ReadEnv("MAPBOX_API_TOKEN") = Undefined THEN "error" ELSE "ready"
    /\ UNCHANGED <<processEnv, buildStatus, importMetaEnv, envAtBuild, renders, hostVars, aliasVars, cmdVars>>

----------------------------------------------------------------------------
(* Development server: server.allowedHosts.                                *)

\* Variant: the second domain is missing from the list
allowedHostsFirstOnly == {".e2b.app"}

\* vite.config.ts: server: { allowedHosts: [".e2b.app", ".bespoker.ai"] }
allowedHosts == {".e2b.app", ".bespoker.ai"}

MaxRequests == 2

\* Host headers a client may send: a name, optionally under further labels,
\* optionally with a port or with labels appended after it.
HostPrefixes == {"", "x.", "not", "."}

HostBases == {"e2b.app", "bespoker.ai", "localhost", "example.com", "127.0.0.1"}

HostSuffixes == {"", ":5173", ".evil.com"}

Hosts ==
    {pre \o base \o post : pre \in HostPrefixes, base \in HostBases, post \in HostSuffixes}
        \cup {"[::1]", "[::1]:5173", "[e2b.app]", "256.0.0.1", "10.0.0.01"}

\* String.prototype.indexOf / lastIndexOf for one character; 0 when absent
indexOf(s, c) ==
    IF \E i \in 1..Len(s) : SubSeq(s, i, i) = c
    THEN CHOOSE i \in 1..Len(s) :
            /\ SubSeq(s, i, i) = c
            /\ \A j \in 1..(i - 1) : SubSeq(s, j, j) # c
    ELSE 0

lastIndexOf(s, c) ==
    IF \E i \in 1..Len(s) : SubSeq(s, i, i) = c
    THEN CHOOSE i \in 1..Len(s) :
            /\ SubSeq(s, i, i) = c
            /\ \A j \in (i + 1)..Len(s) : SubSeq(s, j, j) # c
    ELSE 0

RECURSIVE split(_, _)
\* String.prototype.split on one character
split(s, c) ==
    LET i == indexOf(s, c)
    IN  IF i = 0 THEN <<s>>
        ELSE <<SubSeq(s, 1, i - 1)>> \o split(SubSeq(s, i + 1, Len(s)), c)

DigitValue(d) ==
    CASE d = "0" -> 0 [] d = "1" -> 1 [] d = "2" -> 2 [] d = "3" -> 3 [] d = "4" -> 4
      [] d = "5" -> 5 [] d = "6" -> 6 [] d = "7" -> 7 [] d = "8" -> 8 [] d = "9" -> 9
      [] OTHER -> -1

RECURSIVE DecimalValue(_)
DecimalValue(s) ==
    IF Len(s) = 0 THEN 0
    ELSE 10 * DecimalValue(SubSeq(s, 1, Len(s) - 1)) + DigitValue(SubSeq(s, Len(s), Len(s)))

\* One segment of a dotted quad: 0..255 in decimal, no leading zero
isV4Seg(seg) ==
    /\ Len(seg) \in 1..3
    /\ \A i \in 1..Len(seg) : DigitValue(SubSeq(seg, i, i)) >= 0
    /\ Len(seg) > 1 => SubSeq(seg, 1, 1) # "0"
    /\ DecimalValue(seg) <= 255

\* net.isIP(hostname) === 4
isIPv4(hostname) ==
    LET segs == split(hostname, ".")
    IN  Len(segs) = 4 /\ \A i \in 1..4 : isV4Seg(segs[i])

\* net.isIP(text) === 6, for the forms the model sends: hexadecimal groups
\* and colons, with two colons at least
isIPv6(text) ==
    /\ \A i \in 1..Len(text) :
          \/ SubSeq(text, i, i) = ":"
          \/ DigitValue(SubSeq(text, i, i)) >= 0
          \/ SubSeq(text, i, i) \in {"a", "b", "c", "d", "e", "f"}
    /\ Len(split(text, ":")) >= 3

\* The Host header without its port: everything before the last colon
hostnameOf(host) ==
    LET colonPos == lastIndexOf(host, ":")
    IN  IF colonPos = 0 THEN host ELSE SubSeq(host, 1, colonPos - 1)

\* Variant: the leading dot is dropped before the suffix test
matchesAllowedHostSuffix(allowedHost, hostname) ==
    \/ allowedHost = hostname
    \/ /\ SubSeq(allowedHost, 1, 1) = "."
       /\ endsWith(hostname, SubSeq(allowedHost, 2, Len(allowedHost)))

\* One entry of allowedHosts against a host name: the entry itself, and for
\* an entry with a leading dot the name without the dot and every name
\* under it
matchesAllowedHost(allowedHost, hostname) ==
    \/ allowedHost = hostname
    \/ /\ SubSeq(allowedHost, 1, 1) = "."
       /\ \/ SubSeq(allowedHost, 2, Len(allowedHost)) = hostname
          \/ endsWith(hostname, allowedHost)

\* The dev server's host check without its cache.  Addresses and localhost
\* cannot be rebound by DNS and are let through before the list is read.
isHostAllowedWithoutCache(host) ==
    IF SubSeq(host, 1, 1) = "["
    THEN LET endIpv6 == indexOf(host, "]")
         IN  endIpv6 # 0 /\ isIPv6(SubSeq(host, 2, endIpv6 - 1))
    ELSE LET hostname == hostnameOf(host)
         IN  \/ isIPv4(hostname)
             \/ hostname = "localhost"
             \/ endsWith(hostname, ".localhost")
             \/ \E allowedHost \in allowedHosts : matchesAllowedHost(allowedHost, hostname)

\* The check as the middleware calls it: a header found allowed once is
\* remembered
isHostAllowed(host) == host \in allowedCache \/ isHostAllowedWithoutCache(host)

HostInit ==
    /\ allowedCache = {}
    /\ hostHeader = ""
    /\ status = 0
    /\ requests = 0

\* One HTTP request to the dev server: 403 unless the Host header is allowed
Request(host) ==
    /\ requests < MaxRequests
    /\ requests' = requests + 1
    /\ hostHeader' = host
    /\ status' = IF isHostAllowed(host) THEN 200 ELSE 403
    /\ allowedCache' = IF isHostAllowed(host) THEN allowedCache \cup {host} ELSE allowedCache
    /\ UNCHANGED <<envVars, aliasVars, cmdVars>>

\* The dev server is stopped and started again: the cache starts empty
RestartServer ==
    /\ requests > 0
    /\ allowedCache' = {}
    /\ requests' = 0
    /\ UNCHANGED <<hostHeader, status, envVars, aliasVars, cmdVars>>

----------------------------------------------------------------------------
(* Module resolution: resolve.alias.                                       *)

\* __dirname of vite.config.ts: the project root
ProjectRoot == "/app"

\* path.dirname for an absolute path
pathDirname(p) ==
    LET i == lastIndexOf(p, "/")
    IN  IF i <= 1 THEN "/" ELSE SubSeq(p, 1, i - 1)

RECURSIVE pathResolve(_, _)
\* path.resolve(from, to) for an absolute `from`
pathResolve(from, to) ==
    IF to = "" \/ to = "." THEN from
    ELSE IF SubSeq(to, 1, 1) = "/" THEN to
    ELSE IF to = ".." THEN pathDirname(from)
    ELSE IF startsWith(to, "./") THEN pathResolve(from, SubSeq(to, 3, Len(to)))
    ELSE IF startsWith(to, "../") THEN pathResolve(pathDirname(from), SubSeq(to, 4, Len(to)))
    ELSE LET i == indexOf(to, "/")
         IN  IF i = 0 THEN (IF from = "/" THEN "/" \o to ELSE from \o "/" \o to)
             ELSE pathResolve((IF from = "/" THEN "" ELSE from) \o "/" \o SubSeq(to, 1, i - 1),
                              SubSeq(to, i + 1, Len(to)))

\* vite.config.ts: alias: { "@": path.resolve(__dirname, "./src") }
aliasFind == "@"

\* Variant: the replacement is left relative
aliasReplacementRelative == "./src"

aliasReplacement == pathResolve(ProjectRoot, "./src")

\* Variant: any import that begins with the key
matchesByPrefix(pattern, importee) == startsWith(importee, pattern)

\* Whether an alias key applies to an import: the key itself, or the key
\* followed by a path separator
matches(pattern, importee) ==
    /\ Len(importee) >= Len(pattern)
    /\ \/ importee = pattern
       \/ startsWith(importee, pattern \o "/")

\* importee.replace(find, replacement): the first occurrence, which a match
\* puts at the start
applyAlias(importee) ==
    IF matches(aliasFind, importee)
    THEN aliasReplacement \o SubSeq(importee, Len(aliasFind) + 1, Len(importee))
    ELSE importee

\* Resolution of an import: the alias first, then an absolute path as it
\* is, a relative path against the importing file's directory, a package
\* name in the project's node_modules.  The id is the path before the
\* file extension is probed, a step that does not look at the importer.
resolveId(source, importer) ==
    LET id == applyAlias(source)
    IN  IF SubSeq(id, 1, 1) = "/" THEN id
        ELSE IF startsWith(id, "./") \/ startsWith(id, "../") \/ id = "." \/ id = ".."
             THEN pathResolve(pathDirname(importer), id)
        ELSE pathResolve(ProjectRoot, "node_modules") \o "/" \o id

Importers == {
    "/app/vite.config.ts",
    "/app/worker/index.ts",
    "/app/src/main.tsx",
    "/app/src/App.tsx",
    "/app/src/lib/utils.ts",
    "/app/src/components/ui/button.tsx" }

Sources == {
    "@", "@/lib/utils", "@/components/ui", "@/App",
    "@vitejs/plugin-react", "@cloudflare/vite-plugin",
    "./App", "../lib/utils", "./src/lib/utils", "react" }

NoImport == [importer |-> "", source |-> "", id |-> ""]

AliasInit ==
    /\ prevImport = NoImport
    /\ lastImport = NoImport

\* The bundler meets `import ... from source` in file `importer`
Import(importer, source) ==
    /\ prevImport' = lastImport
    /\ lastImport' = [importer |-> importer, source |-> source, id |-> resolveId(source, importer)]
    /\ UNCHANGED <<envVars, hostVars, cmdVars>>

----------------------------------------------------------------------------
(* Command surface (README, Scripts): dev, build, deploy, cf-typegen.      *)
(* A script is a chain of tool invocations; a tool that exits non-zero     *)
(* ends the chain.                                                         *)

MaxEdits == 2

\* dist/ and the deployment hold the artifact of at most one source version
NoArtifact == {}

NoExit == "none"

CmdInit ==
    /\ pc = "idle"
    /\ script = "none"
    /\ typeOk \in BOOLEAN
    /\ modulesOk \in BOOLEAN
    /\ srcVersion = 0
    /\ tscPassed = FALSE
    /\ vitePassed = FALSE
    /\ dist = NoArtifact
    /\ deployed = NoArtifact
    /\ exitCode = NoExit

\* The developer saves a change; it may break or repair types and imports.
\* Nothing stops an edit while a script runs.
EditSource(types, modules) ==
    /\ srcVersion < MaxEdits
    /\ srcVersion' = srcVersion + 1
    /\ typeOk' = types
    /\ modulesOk' = modules
    /\ UNCHANGED <<pc, script, tscPassed, vitePassed, dist, deployed, exitCode>>
    /\ UNCHANGED <<envVars, hostVars, aliasVars>>

\* npm run build: type-check (tsc -b) then build for production
RunBuild ==
    /\ pc = "idle"
    /\ script' = "build"
    /\ pc' = "tsc"
    /\ tscPassed' = FALSE
    /\ vitePassed' = FALSE
    /\ UNCHANGED <<typeOk, modulesOk, srcVersion, dist, deployed, exitCode>>
    /\ UNCHANGED <<envVars, hostVars, aliasVars>>

\* npm run deploy: build then wrangler deploy
RunDeploy ==
    /\ pc = "idle"
    /\ script' = "deploy"
    /\ pc' = "tsc"
    /\ tscPassed' = FALSE
    /\ vitePassed' = FALSE
    /\ UNCHANGED <<typeOk, modulesOk, srcVersion, dist, deployed, exitCode>>
    /\ UNCHANGED <<envVars, hostVars, aliasVars>>

\* npm run dev, npm run cf-typegen: one tool each, pass or fail; neither
\* writes dist/ nor deploys
RunOpaque(name, ok) ==
    /\ pc = "idle"
    /\ script' = name
    /\ exitCode' = IF ok THEN "ok" ELSE "failed"
    /\ tscPassed' = FALSE
    /\ vitePassed' = FALSE
    /\ UNCHANGED <<pc, typeOk, modulesOk, srcVersion, dist, deployed>>
    /\ UNCHANGED <<envVars, hostVars, aliasVars>>

\* Variant: the chain goes on to the bundler whatever tsc reports
TscStepUnchained ==
    /\ pc = "tsc"
    /\ pc' = "vite"
    /\ tscPassed' = typeOk
    /\ UNCHANGED <<script, typeOk, modulesOk, srcVersion, vitePassed, dist, deployed, exitCode>>
    /\ UNCHANGED <<envVars, hostVars, aliasVars>>

\* tsc -b: exits non-zero on a type error, and the script ends there
TscStep ==
    /\ pc = "tsc"
    /\ IF typeOk
       THEN /\ tscPassed' = TRUE
            /\ pc' = "vite"
            /\ UNCHANGED exitCode
       ELSE /\ pc' = "idle"
            /\ exitCode' = "failed"
            /\ UNCHANGED tscPassed
    /\ UNCHANGED <<script, typeOk, modulesOk, srcVersion, vitePassed, dist, deployed>>
    /\ UNCHANGED <<envVars, hostVars, aliasVars>>

\* vite build: writes dist/ from the source tree as it is now, or exits
\* non-zero on an import it cannot resolve and writes nothing
ViteBuildStep ==
    /\ pc = "vite"
    /\ IF modulesOk
       THEN /\ vitePassed' = TRUE
            /\ dist' = {srcVersion}
            /\ pc' = IF script = "deploy" THEN "wrangler" ELSE "idle"
            /\ exitCode' = IF script = "deploy" THEN exitCode ELSE "ok"
       ELSE /\ pc' = "idle"
            /\ exitCode' = "failed"
            /\ UNCHANGED <<vitePassed, dist>>
    /\ UNCHANGED <<script, typeOk, modulesOk, srcVersion, tscPassed, deployed>>
    /\ UNCHANGED <<envVars, hostVars, aliasVars>>

\* wrangler deploy: uploads what dist/ holds, or fails (credentials) and
\* uploads nothing
WranglerDeploy(ok) ==
    /\ pc = "wrangler"
    /\ pc' = "idle"
    /\ deployed' = IF ok THEN dist ELSE deployed
    /\ exitCode' = IF ok THEN "ok" ELSE "failed"
    /\ UNCHANGED <<script, typeOk, modulesOk, srcVersion, tscPassed, vitePassed, dist>>
    /\ UNCHANGED <<envVars, hostVars, aliasVars>>

----------------------------------------------------------------------------
(* Specifications: one per concern.  Each starts the concern it exercises  *)
(* from every state it can be constructed in; the other concerns stay in   *)
(* one fixed constructed state.                                            *)

EnvIdle == EnvInit /\ processEnv = <<>>

CmdIdle == CmdInit /\ typeOk /\ modulesOk

EnvNext ==
    \/ \E name \in EnvNames, value \in EnvValues : SetEnv(name, value)
    \/ \E name \in EnvNames : UnsetEnv(name)
    \/ ViteBuild
    \/ MapInit

InitEnv == EnvInit /\ HostInit /\ AliasInit /\ CmdIdle

SpecEnv == InitEnv /\ [][EnvNext]_vars

AppNext ==
    \/ \E value \in EnvValues : SetEnv("MAPBOX_API_TOKEN", value)
    \/ UnsetEnv("MAPBOX_API_TOKEN")
    \/ ViteBuild
    \/ MapInit
    \/ RenderApp

InitApp == EnvIdle /\ HostInit /\ AliasInit /\ CmdIdle

SpecApp == InitApp /\ [][AppNext]_vars

HostNext ==
    \/ \E host \in Hosts : Request(host)
    \/ RestartServer

InitHost == EnvIdle /\ HostInit /\ AliasInit /\ CmdIdle

SpecHost == InitHost /\ [][HostNext]_vars

AliasNext == \E importer \in Importers, source \in Sources : Import(importer, source)

InitAlias == EnvIdle /\ HostInit /\ AliasInit /\ CmdIdle

SpecAlias == InitAlias /\ [][AliasNext]_vars

CmdNext ==
    \/ \E types \in BOOLEAN, modules \in BOOLEAN : EditSource(types, modules)
    \/ RunBuild
    \/ RunDeploy
    \/ \E name \in {"dev", "cf-typegen"}, ok \in BOOLEAN : RunOpaque(name, ok)
    \/ TscStep
    \/ ViteBuildStep
    \/ \E ok \in BOOLEAN : WranglerDeploy(ok)

InitCmd == EnvIdle /\ HostInit /\ AliasInit /\ CmdInit

SpecCmd == InitCmd /\ [][CmdNext]_vars

Init == EnvInit /\ HostInit /\ AliasInit /\ CmdInit

Next == EnvNext \/ RenderApp \/ HostNext \/ AliasNext \/ CmdNext

Spec == Init /\ [][Next]_vars

----------------------------------------------------------------------------
(* Properties.  They are stated against explicit reference sets, not       *)
(* against the operators of the model, so that each one constrains them.   *)

\* The names of EnvNames that start with "VITE_" or "MAPBOX_"
PrefixedNames == {"VITE_API_URL", "MAPBOX_API_TOKEN"}

\* C1: no environment variable whose name does not start with "VITE_" or
\* "MAPBOX_" is visible to application code, whatever its value and
\* whatever else the environment holds: such a name is never a key of
\* import.meta.env and reads as undefined.
C1_UnprefixedNeverExposed ==
    \A name \in EnvNames \ PrefixedNames :
        /\ name \notin DOMAIN importMetaEnv
        /\ ReadEnv(name) = Undefined

\* C1 witness: a build ran in an environment that held every unprefixed
\* name next to a prefixed one, which the bundle exposes
C1_Witness ==
    /\ buildStatus = "ok"
    /\ EnvNames \ PrefixedNames \subseteq DOMAIN envAtBuild
    /\ "VITE_API_URL" \in DOMAIN importMetaEnv

\* C2: every variable whose name starts with "VITE_" or "MAPBOX_" and that
\* the build environment held is exposed under the same name with exactly
\* the value it had when the build ran.
C2_PrefixedExposedUnchanged ==
    buildStatus = "ok" =>
        \A name \in PrefixedNames \cap DOMAIN envAtBuild :
            /\ name \in DOMAIN importMetaEnv
            /\ ReadEnv(name) = envAtBuild[name]

\* C2 witness: the bundle holds the token the build saw, and the process
\* environment has since been given another one
C2_Witness ==
    /\ buildStatus = "ok"
    /\ "MAPBOX_API_TOKEN" \in DOMAIN envAtBuild
    /\ ReadEnv("MAPBOX_API_TOKEN") = "pk.live"
    /\ "MAPBOX_API_TOKEN" \in DOMAIN processEnv
    /\ processEnv["MAPBOX_API_TOKEN"] = "sk.test"

\* C5: any two invocations of App return the same element tree, whatever
\* environment the bundle was built in.
C5_AppOutputIdentical ==
    \A i \in DOMAIN renders, j \in DOMAIN renders : renders[i].output = renders[j].output

\* C5 witness: two invocations, the bundle holding a token at one and none,
\* or another, at the other
C5_Witness ==
    /\ Len(renders) >= 2
    /\ renders[1].token # renders[2].token

\* C6: a build in an environment without MAPBOX_API_TOKEN succeeds and
\* leaves import.meta.env.MAPBOX_API_TOKEN undefined; the failure shows
\* only in the map view, once it is mounted, and only in that case.
C6_MissingTokenFailsAtRuntimeOnly ==
    /\ (buildStatus # "none" /\ "MAPBOX_API_TOKEN" \notin DOMAIN envAtBuild) =>
            /\ buildStatus = "ok"
            /\ ReadEnv("MAPBOX_API_TOKEN") = Undefined
            /\ mapState \in {"unmounted", "error"}
    /\ mapState = "error" =>
            /\ buildStatus = "ok"
            /\ "MAPBOX_API_TOKEN" \notin DOMAIN envAtBuild

\* C6 witness: built without the token, and the mounted map has failed
C6_Witness ==
    /\ buildStatus = "ok"
    /\ "MAPBOX_API_TOKEN" \notin DOMAIN envAtBuild
    /\ mapState = "error"

\* C8: once a build has completed, a step that changes the process
\* environment, or that mounts the map in the running application, changes
\* no value the application reads from import.meta.env.
C8_FrozenAfterBuild ==
    [][(/\ buildStatus = "ok"
        /\ \/ processEnv' # processEnv
           \/ mapState = "unmounted" /\ mapState' # "unmounted")
            => \A name \in EnvNames : ReadEnv(name)' = ReadEnv(name)]_vars

\* C8 witness: after the build the token was replaced and a secret removed
\* from the process environment, and the map has been mounted
C8_Witness ==
    /\ buildStatus = "ok"
    /\ "MAPBOX_API_TOKEN" \in DOMAIN envAtBuild
    /\ "MAPBOX_API_TOKEN" \in DOMAIN processEnv
    /\ processEnv["MAPBOX_API_TOKEN"] # envAtBuild["MAPBOX_API_TOKEN"]
    /\ "SECRET_KEY" \in DOMAIN envAtBuild
    /\ "SECRET_KEY" \notin DOMAIN processEnv
    /\ mapState = "ready"

----------------------------------------------------------------------------
(* Properties of the dev server's host check.                              *)

AllowedDomains == {"e2b.app", "bespoker.ai"}

\* The host name of the last request
RequestedName == hostnameOf(hostHeader)

\* `name` is `domain` itself or a name under it: the labels of `domain`
\* preceded by a dot
UnderDomain(name, domain) ==
    \/ name = domain
    \/ /\ Len(name) > Len(domain)
       /\ SubSeq(name, Len(name) - Len(domain), Len(name)) = "." \o domain

MatchesAPattern == \E domain \in AllowedDomains : UnderDomain(RequestedName, domain)

\* The Host headers of Hosts that are address literals or loopback names
LoopbackOrAddress ==
    {"127.0.0.1", "127.0.0.1:5173", "[::1]", "[::1]:5173",
     "localhost", "localhost:5173", "x.localhost", "x.localhost:5173",
     ".localhost", ".localhost:5173"}

\* C3 as stated: a request is accepted exactly when its host matches one
\* of the two configured patterns.
C3_AcceptedIffMatchesPattern ==
    status # 0 => (status = 200 <=> MatchesAPattern)

\* C3 amended: a request whose host name matches a configured pattern is
\* accepted; one that matches none is rejected unless the host is an IP
\* address literal, localhost or a name under .localhost, which the dev
\* server accepts whatever the list says.  The answer does not depend on
\* the requests served before.
C3_AcceptedIffMatchesOrLoopback ==
    status # 0 => (status = 200 <=> (MatchesAPattern \/ hostHeader \in LoopbackOrAddress))

\* C3 witness: a request was accepted and remembered, and the next one,
\* for a host outside the list, was rejected
C3_Witness ==
    /\ requests = 2
    /\ allowedCache # {}
    /\ status = 403
    /\ hostHeader = "example.com"

\* `name` ends in the characters of `domain` with something other than a
\* dot before them
EndsInWithoutDot(name, domain) ==
    /\ Len(name) > Len(domain)
    /\ SubSeq(name, Len(name) - Len(domain) + 1, Len(name)) = domain
    /\ SubSeq(name, Len(name) - Len(domain), Len(name) - Len(domain)) # "."

\* `name` holds `domain` followed by further labels
FollowedByLabels(name, domain) ==
    \E i \in 1..Len(name) :
        /\ i + Len(domain) <= Len(name)
        /\ SubSeq(name, i, i + Len(domain)) = domain \o "."

\* C10: a pattern with a leading dot matches on a label boundary.  The
\* domain itself and every name under it are accepted; a name that only
\* ends in the domain's characters, or that carries the domain followed by
\* further labels, matches neither pattern and is rejected.
C10_MatchOnLabelBoundary ==
    status # 0 =>
        \A domain \in AllowedDomains :
            /\ UnderDomain(RequestedName, domain) => status = 200
            /\ (/\ EndsInWithoutDot(RequestedName, domain) \/ FollowedByLabels(RequestedName, domain)
                /\ ~MatchesAPattern
                /\ hostHeader \notin LoopbackOrAddress) => status = 403

\* C10 witness: "e2b.app" was accepted, then "note2b.app" was rejected
C10_Witness ==
    /\ "e2b.app" \in allowedCache
    /\ hostHeader = "note2b.app"
    /\ status = 403

----------------------------------------------------------------------------
(* Properties of alias resolution.                                         *)

\* The imports of Sources that are "@" or begin with "@/"
AliasedSources == {"@", "@/lib/utils", "@/components/ui", "@/App"}

\* The imports of Sources that name a scoped package
ScopedPackages == {"@vitejs/plugin-react", "@cloudflare/vite-plugin"}

BeginsWith(text, head) == Len(text) >= Len(head) /\ SubSeq(text, 1, Len(head)) = head

\* C4: an import through "@" resolves under the src directory next to the
\* configuration file, and two files importing the same aliased path get
\* the same target, wherever they are.
C4_AliasTargetFixed ==
    /\ lastImport.source \in AliasedSources =>
            lastImport.id = "/app/src" \o SubSeq(lastImport.source, 2, Len(lastImport.source))
    /\ (prevImport.source \in AliasedSources /\ prevImport.source = lastImport.source) =>
            prevImport.id = lastImport.id

\* C4 witness: the same aliased import from a file deep in src and from a
\* file outside it
C4_Witness ==
    /\ prevImport.source = "@/lib/utils"
    /\ lastImport.source = "@/lib/utils"
    /\ prevImport.importer = "/app/src/components/ui/button.tsx"
    /\ lastImport.importer = "/app/worker/index.ts"

\* C9: the alias rewrites "@" and the imports that begin with "@/" and no
\* others: a scoped package, whose name merely begins with "@", resolves
\* to the package and not into the src directory.
C9_ScopedPackagesNotAliased ==
    /\ lastImport.source \in ScopedPackages =>
            /\ lastImport.id = "/app/node_modules/" \o lastImport.source
            /\ ~BeginsWith(lastImport.id, "/app/src")
    /\ lastImport.source \in AliasedSources => BeginsWith(lastImport.id, "/app/src")

\* C9 witness: a scoped package resolved right after an aliased import
C9_Witness ==
    /\ prevImport.source = "@/lib/utils"
    /\ lastImport.source = "@vitejs/plugin-react"
    /\ lastImport.id = "/app/node_modules/@vitejs/plugin-react"

----------------------------------------------------------------------------
(* Properties of the command surface.                                      *)

\* C7: the bundler runs only after tsc passed in the same invocation; a
\* failing type check or build writes no artifact; wrangler runs only in
\* a deploy whose type check and build both passed, and uploads what that
\* build left in dist/.
C7_DeployOnlyAfterCheckedBuild ==
    /\ [](pc = "vite" => tscPassed)
    /\ [](pc = "wrangler" => (script = "deploy" /\ tscPassed /\ vitePassed))
    /\ [][dist' # dist => (pc = "vite" /\ tscPassed /\ modulesOk)]_vars
    /\ [][deployed' # deployed =>
            (pc = "wrangler" /\ tscPassed /\ vitePassed /\ deployed' = dist)]_vars

\* C7 witness: one deploy went through, and a later deploy of a source
\* tree with a type error stopped at tsc, leaving the deployment as it was
C7_Witness ==
    /\ deployed # NoArtifact
    /\ script = "deploy"
    /\ pc = "idle"
    /\ exitCode = "failed"
    /\ ~tscPassed
    /\ ~typeOk
    /\ deployed = dist

====
